---- MODULE Spec2Model ----
(***************************************************************************)
(* Model of the issue importer action (index.js): the run() orchestrator,  *)
(* validateIssue, validateAssignees, resolveMilestone, createIssue and the *)
(* field normalizers, with the GitHub API as a nondeterministic remote.    *)
(*                                                                         *)
(* JavaScript values are tagged records [t |-> type, ...]; a JavaScript    *)
(* string is the sequence of its characters, so that trim, split, parseInt *)
(* and toString are computed character by character as the code does.      *)
(***************************************************************************)
EXTENDS Integers, Sequences, FiniteSets, TLC

\* ------------------------------------------------------------------------
\* Bounds of the model
\* ------------------------------------------------------------------------

\* Longest record sequence the input file holds.
MaxRecords == 2

\* Longest assignee list of a record in the assignee-validation runs.
MaxCandidates == 2

\* Longest labels/assignees string of a record in the normalizer runs.
MaxLen == 3

\* ------------------------------------------------------------------------
\* JavaScript values
\* ------------------------------------------------------------------------

Undef == [t |-> "undefined"]
Null == [t |-> "null"]
Str(s) == [t |-> "string", v |-> s]
Num(n) == [t |-> "number", v |-> n]
Bool(b) == [t |-> "boolean", v |-> b]
Arr(a) == [t |-> "array", v |-> a]
NaN == [t |-> "NaN"]

\* Field names a decoded record or JSON document is read by.
Keys == {"title", "body", "description", "labels", "assignees", "milestone", "issues"}

\* An object literal: the given fields, every other key absent.
Obj(fields) ==
    [t |-> "object",
     f |-> [k \in Keys |-> IF k \in DOMAIN fields THEN fields[k] ELSE Undef]]

\* JavaScript truthiness (the !x and x || y tests of the code).
Truthy(x) ==
    CASE x.t = "undefined" -> FALSE
      [] x.t = "null" -> FALSE
      [] x.t = "NaN" -> FALSE
      [] x.t = "string" -> Len(x.v) > 0
      [] x.t = "number" -> x.v # 0
      [] x.t = "boolean" -> x.v
      [] OTHER -> TRUE

\* x || y
OrElse(x, y) == IF Truthy(x) THEN x ELSE y

\* Reading x.key throws a TypeError exactly when x is null or undefined.
GetThrows(x) == x.t \in {"null", "undefined"}

\* x.key for a value that is not null or undefined: a primitive or an array
\* has none of the record keys.
Get(x, key) == IF x.t = "object" THEN x.f[key] ELSE Undef

\* x?.key
GetOpt(x, key) == IF GetThrows(x) THEN Undef ELSE Get(x, key)

\* ------------------------------------------------------------------------
\* Strings as character sequences
\* ------------------------------------------------------------------------

WhiteSpace == {" ", "\t", "\n"}

DigitChars == <<"0", "1", "2", "3", "4", "5", "6", "7", "8", "9">>

IsDigit(c) == \E d \in 1..10 : DigitChars[d] = c

DigitVal(c) == (CHOOSE d \in 1..10 : DigitChars[d] = c) - 1

RECURSIVE TrimStart(_)
TrimStart(s) ==
    IF s # <<>> /\ Head(s) \in WhiteSpace THEN TrimStart(Tail(s)) ELSE s

RECURSIVE TrimEnd(_)
TrimEnd(s) ==
    IF s # <<>> /\ s[Len(s)] \in WhiteSpace
    THEN TrimEnd(SubSeq(s, 1, Len(s) - 1))
    ELSE s

\* String.prototype.trim
Trim(s) == TrimEnd(TrimStart(s))

\* String.prototype.replace(/;/g, ',')
ReplaceSemicolons(s) == [k \in 1..Len(s) |-> IF s[k] = ";" THEN "," ELSE s[k]]

\* String.prototype.split(','): the pieces between commas, empty ones kept.
RECURSIVE SplitFrom(_, _)
SplitFrom(s, piece) ==
    IF s = <<>> THEN <<piece>>
    ELSE IF Head(s) = "," THEN <<piece>> \o SplitFrom(Tail(s), <<>>)
    ELSE SplitFrom(Tail(s), Append(piece, Head(s)))

Split(s) == SplitFrom(s, <<>>)

\* Array.prototype.join(sep) over a sequence of strings
RECURSIVE Join(_, _)
Join(ss, sep) ==
    IF ss = <<>> THEN <<>>
    ELSE IF Len(ss) = 1 THEN ss[1]
    ELSE ss[1] \o sep \o Join(Tail(ss), sep)

\* Number.prototype.toString for an integer
RECURSIVE NatToStr(_)
NatToStr(n) ==
    IF n < 10 THEN <<DigitChars[n + 1]>>
    ELSE Append(NatToStr(n \div 10), DigitChars[(n % 10) + 1])

NumToStr(n) == IF n < 0 THEN <<"-">> \o NatToStr(0 - n) ELSE NatToStr(n)

\* The digits parseInt consumes: the longest prefix of decimal digits.
RECURSIVE DigitPrefix(_)
DigitPrefix(s) ==
    IF s # <<>> /\ IsDigit(Head(s)) THEN <<Head(s)>> \o DigitPrefix(Tail(s))
    ELSE <<>>

RECURSIVE DigitsValue(_, _)
DigitsValue(s, acc) ==
    IF s = <<>> THEN acc ELSE DigitsValue(Tail(s), acc * 10 + DigitVal(Head(s)))

\* parseInt(s, 10) of a string: leading white space skipped, an optional
\* sign, then the longest run of digits; NaN when there is no digit.
ParseIntStr(s) ==
    LET s1 == TrimStart(s)
        neg == s1 # <<>> /\ Head(s1) = "-"
        s2 == IF s1 # <<>> /\ Head(s1) \in {"-", "+"} THEN Tail(s1) ELSE s1
        ds == DigitPrefix(s2)
    IN IF ds = <<>> THEN NaN
       ELSE Num(IF neg THEN 0 - DigitsValue(ds, 0) ELSE DigitsValue(ds, 0))

\* String(x): the conversion parseInt and toString() apply to a value that
\* is not a string.
RECURSIVE ToStr(_)
ToStr(x) ==
    CASE x.t = "string" -> x.v
      [] x.t = "number" -> NumToStr(x.v)
      [] x.t = "boolean" -> IF x.v THEN <<"t", "r", "u", "e">>
                                   ELSE <<"f", "a", "l", "s", "e">>
      [] x.t = "array" ->
           Join([k \in 1..Len(x.v) |->
                    IF x.v[k].t \in {"null", "undefined"} THEN <<>>
                    ELSE ToStr(x.v[k])], <<",">>)
      [] x.t = "null" -> <<"n", "u", "l", "l">>
      [] x.t = "undefined" -> <<"u", "n", "d", "e", "f", "i", "n", "e", "d">>
      [] OTHER -> <<"[", "o", "b", "j", "e", "c", "t", " ", "O", "b", "j", "e", "c", "t", "]">>

\* parseInt(x, 10)
ParseInt(x) == ParseIntStr(ToStr(x))

\* ------------------------------------------------------------------------
\* Field normalizers and milestone resolution (pure functions)
\* ------------------------------------------------------------------------

IsNonEmptyString(x) == Truthy(x) /\ x.t = "string"

\* The strings an array filter kept, as character sequences.
StringsOf(xs) == [n \in 1..Len(xs) |-> xs[n].v]

\* .map(label => label.trim())
TrimAll(ss) == [n \in 1..Len(ss) |-> Trim(ss[n])]

NonEmpty(s) == s # <<>>

\* Variant of parseLabels: the semicolons are not replaced, the string is
\* split on commas only.
parseLabelsCommaOnly(labels) ==
    IF ~Truthy(labels) THEN <<>>
    ELSE IF labels.t = "array"
    THEN StringsOf(SelectSeq(labels.v, IsNonEmptyString))
    ELSE IF labels.t = "string"
    THEN SelectSeq(TrimAll(Split(labels.v)), NonEmpty)
    ELSE <<>>

\* parseLabels: a sequence of JavaScript strings (character sequences).
parseLabels(labels) ==
    IF ~Truthy(labels) THEN <<>>
    ELSE IF labels.t = "array"
    THEN StringsOf(SelectSeq(labels.v, IsNonEmptyString))
    ELSE IF labels.t = "string"
    THEN SelectSeq(TrimAll(Split(ReplaceSemicolons(labels.v))), NonEmpty)
    ELSE <<>>

\* Variant of parseAssignees: the elements of an array are trimmed as the
\* pieces of a string are.
parseAssigneesTrimsElements(assignees) ==
    IF ~Truthy(assignees) THEN <<>>
    ELSE IF assignees.t = "array"
    THEN SelectSeq(TrimAll(StringsOf(SelectSeq(assignees.v, IsNonEmptyString))), NonEmpty)
    ELSE IF assignees.t = "string"
    THEN SelectSeq(TrimAll(Split(ReplaceSemicolons(assignees.v))), NonEmpty)
    ELSE <<>>

\* parseAssignees
parseAssignees(assignees) ==
    IF ~Truthy(assignees) THEN <<>>
    ELSE IF assignees.t = "array"
    THEN StringsOf(SelectSeq(assignees.v, IsNonEmptyString))
    ELSE IF assignees.t = "string"
    THEN SelectSeq(TrimAll(Split(ReplaceSemicolons(assignees.v))), NonEmpty)
    ELSE <<>>

\* The Map getMilestoneMapping builds from the listing: title -> number,
\* a later entry with the same title overwriting an earlier one.
MilestoneMapOf(data) ==
    [ttl \in {data[n].title : n \in 1..Len(data)} |->
        data[CHOOSE n \in 1..Len(data) :
                /\ data[n].title = ttl
                /\ \A m \in (n + 1)..Len(data) : data[m].title # ttl].number]

EmptyMap == MilestoneMapOf(<<>>)

\* milestoneMap.has(milestone): only a string can equal a title key.
MapHas(map, milestone) == milestone.t = "string" /\ milestone.v \in DOMAIN map

\* Variant of resolveMilestone: whatever parseInt returns is taken, without
\* comparing its decimal form with the reference.
resolveMilestoneNoRoundTrip(milestone, map) ==
    IF ~Truthy(milestone) THEN [value |-> Null, warned |-> FALSE]
    ELSE IF milestone.t = "number" THEN [value |-> milestone, warned |-> FALSE]
    ELSE LET parsed == ParseInt(milestone)
         IN IF parsed.t # "NaN"
            THEN [value |-> parsed, warned |-> FALSE]
            ELSE IF MapHas(map, milestone)
            THEN [value |-> Num(map[milestone.v]), warned |-> FALSE]
            ELSE [value |-> Null, warned |-> TRUE]

\* Variant of resolveMilestone: the title lookup comes before the numeric
\* parse.
resolveMilestoneTitleFirst(milestone, map) ==
    IF ~Truthy(milestone) THEN [value |-> Null, warned |-> FALSE]
    ELSE IF milestone.t = "number" THEN [value |-> milestone, warned |-> FALSE]
    ELSE IF MapHas(map, milestone)
    THEN [value |-> Num(map[milestone.v]), warned |-> FALSE]
    ELSE LET parsed == ParseInt(milestone)
         IN IF parsed.t # "NaN" /\ NumToStr(parsed.v) = ToStr(milestone)
            THEN [value |-> parsed, warned |-> FALSE]
            ELSE [value |-> Null, warned |-> TRUE]

\* resolveMilestone: the value returned and whether core.warning was called.
resolveMilestone(milestone, map) ==
    IF ~Truthy(milestone) THEN [value |-> Null, warned |-> FALSE]
    ELSE IF milestone.t = "number" THEN [value |-> milestone, warned |-> FALSE]
    ELSE LET parsed == ParseInt(milestone)
         IN IF parsed.t # "NaN" /\ NumToStr(parsed.v) = ToStr(milestone)
            THEN [value |-> parsed, warned |-> FALSE]
            ELSE IF MapHas(map, milestone)
            THEN [value |-> Num(map[milestone.v]), warned |-> FALSE]
            ELSE [value |-> Null, warned |-> TRUE]

\* Variant of InvalidTitle: the blank-after-trim test is left out.
InvalidTitleNoBlankTest(title) ==
    \/ ~Truthy(title)
    \/ title.t # "string"

\* The title test of validateIssue: true when the record is rejected.
InvalidTitle(title) ==
    \/ ~Truthy(title)
    \/ title.t # "string"
    \/ Trim(title.v) = <<>>

\* ------------------------------------------------------------------------
\* File parsing
\* ------------------------------------------------------------------------

\* Variant of parseJsonFile: only the object with an "issues" array is
\* accepted, a top-level array is rejected.
parseJsonFileWrappedOnly(content) ==
    IF content.malformed
    THEN [ok |-> FALSE, message |-> <<"Failed to parse JSON file: ", "Unexpected token">>]
    ELSE LET data == content.data
         IN IF GetThrows(data)
            THEN [ok |-> FALSE,
                  message |-> <<"Failed to parse JSON file: ",
                                "Cannot read properties of null (reading 'issues')">>]
            ELSE IF Truthy(Get(data, "issues")) /\ Get(data, "issues").t = "array"
            THEN [ok |-> TRUE, value |-> Get(data, "issues")]
            ELSE [ok |-> FALSE,
                  message |-> <<"Failed to parse JSON file: ",
                                "JSON file must contain an array of issues or an object with an \"issues\" array">>]

\* Variant of parseJsonFile: a truthy "issues" value is returned without the
\* Array.isArray test.
parseJsonFileNoArrayTest(content) ==
    IF content.malformed
    THEN [ok |-> FALSE, message |-> <<"Failed to parse JSON file: ", "Unexpected token">>]
    ELSE LET data == content.data
         IN IF data.t = "array" THEN [ok |-> TRUE, value |-> data]
            ELSE IF GetThrows(data)
            THEN [ok |-> FALSE,
                  message |-> <<"Failed to parse JSON file: ",
                                "Cannot read properties of null (reading 'issues')">>]
            ELSE IF Truthy(Get(data, "issues"))
            THEN [ok |-> TRUE, value |-> Get(data, "issues")]
            ELSE [ok |-> FALSE,
                  message |-> <<"Failed to parse JSON file: ",
                                "JSON file must contain an array of issues or an object with an \"issues\" array">>]

\* parseJsonFile on file content: content.malformed when JSON.parse throws,
\* content.data the decoded value otherwise.
parseJsonFile(content) ==
    IF content.malformed
    THEN [ok |-> FALSE, message |-> <<"Failed to parse JSON file: ", "Unexpected token">>]
    ELSE LET data == content.data
         IN IF data.t = "array" THEN [ok |-> TRUE, value |-> data]
            ELSE IF GetThrows(data)
            THEN [ok |-> FALSE,
                  message |-> <<"Failed to parse JSON file: ",
                                "Cannot read properties of null (reading 'issues')">>]
            ELSE IF Truthy(Get(data, "issues")) /\ Get(data, "issues").t = "array"
            THEN [ok |-> TRUE, value |-> Get(data, "issues")]
            ELSE [ok |-> FALSE,
                  message |-> <<"Failed to parse JSON file: ",
                                "JSON file must contain an array of issues or an object with an \"issues\" array">>]

\* parseCsvFile on file content: content.malformed when Papa.parse reports
\* errors, content.data the rows otherwise.
parseCsvFile(content) ==
    IF content.malformed
    THEN [ok |-> FALSE, message |-> <<"CSV parsing errors: ", "Quoted field unterminated">>]
    ELSE [ok |-> TRUE, value |-> content.data]

\* ------------------------------------------------------------------------
\* Inputs: sample records, file contents and remote answers
\* ------------------------------------------------------------------------

\* Raw records as JSON.parse or Papa.parse decode them.
RecNull == Null
RecScalar == Str(<<"a">>)
RecPlain == Obj([title |-> Str(<<" ", "a", " ">>)])
RecNoTitle == Obj([body |-> Str(<<"b">>), assignees |-> Str(<<"a">>)])
RecBlankTitle == Obj([title |-> Str(<<" ">>), assignees |-> Arr(<<Str(<<"a">>)>>)])
RecNumberTitle == Obj([title |-> Num(5), labels |-> Str(<<"a">>)])
RecFull ==
    Obj([title |-> Str(<<"b">>),
         body |-> Str(<<"b">>),
         labels |-> Str(<<"a", ",", "b">>),
         assignees |-> Str(<<" ", "a", ";", " ">>),
         milestone |-> Str(<<"v">>)])
RecArrays ==
    Obj([title |-> Str(<<"a">>),
         description |-> Str(<<"a">>),
         labels |-> Arr(<<Str(<<"a">>), Str(<<>>), Num(1)>>),
         assignees |-> Arr(<<Str(<<"a">>), Str(<<>>), Num(1)>>),
         milestone |-> Num(5)])
RecZeroMilestone ==
    Obj([title |-> Str(<<"a", "b">>),
         labels |-> Arr(<<>>),
         assignees |-> Str(<<";">>),
         milestone |-> Str(<<"0">>)])

SampleRecords ==
    {RecNull, RecScalar, RecPlain, RecNoTitle, RecBlankTitle, RecNumberTitle,
     RecFull, RecArrays, RecZeroMilestone}

\* Rows of a CSV file: objects whose fields are all strings.
CsvRecords == {RecPlain, RecFull}

SeqsUpTo(S, n) == UNION {[1..m -> S] : m \in 0..n}

\* What the input file holds: malformed text, or a decoded document.
JsonContents ==
    {[malformed |-> TRUE, data |-> Undef]}
    \cup {[malformed |-> FALSE, data |-> Arr(a)] : a \in SeqsUpTo(SampleRecords, MaxRecords)}
    \cup {[malformed |-> FALSE, data |-> Obj([issues |-> Arr(a)])] : a \in SeqsUpTo(CsvRecords, 1)}
    \cup {[malformed |-> FALSE, data |-> d] :
            d \in {Null, Num(5), Obj([title |-> Str(<<"a">>)]), Obj([issues |-> Str(<<"a">>)])}}

CsvContents ==
    {[malformed |-> TRUE, data |-> Undef]}
    \cup {[malformed |-> FALSE, data |-> Arr(a)] : a \in SeqsUpTo(CsvRecords, 1)}

\* The action's inputs: file-format, whether the file exists, its content.
FileInputs ==
    {[format |-> "json", exists |-> TRUE, content |-> c] : c \in JsonContents}
    \cup {[format |-> "csv", exists |-> TRUE, content |-> c] : c \in CsvContents}
    \cup {[format |-> "xml", exists |-> TRUE, content |-> [malformed |-> TRUE, data |-> Undef]],
          [format |-> "json", exists |-> FALSE, content |-> [malformed |-> TRUE, data |-> Undef]]}

\* Inputs of the assignee-validation runs: a record whose assignees field is
\* any list of user names up to MaxCandidates (duplicates included), followed
\* or a separated string, followed by a record without assignees.
CandidateLists == SeqsUpTo({<<"a">>, <<"b">>}, MaxCandidates)

RecWithAssignees(c) ==
    Obj([title |-> Str(<<"a">>),
         assignees |-> Arr([n \in 1..Len(c) |-> Str(c[n])])])

RecSplitAssignees ==
    Obj([title |-> Str(<<"a">>), assignees |-> Str(<<"a", ";", " ", "b", ",">>)])

AssigneeFileInputs ==
    {[format |-> "json", exists |-> TRUE,
      content |-> [malformed |-> FALSE, data |-> Arr(<<r, RecPlain>>)]] :
        r \in {RecWithAssignees(c) : c \in CandidateLists} \cup {RecSplitAssignees}}

\* Inputs of the milestone-resolution runs: a record whose milestone field
\* is any of the references below (the documented string|number, or absent),
\* followed by a record without a milestone.
MilestoneRefs ==
    {Undef, Null, Str(<<>>), Num(0), Num(5), Num(-1),
     Str(<<"5">>), Str(<<"0">>), Str(<<"-", "3">>), Str(<<"1", "0">>),
     Str(<<"v">>), Str(<<"w">>),
     Str(<<"0", "5">>), Str(<<"+", "5">>), Str(<<" ", "5">>), Str(<<"5", "x">>)}

RecWithMilestone(ref) ==
    Obj([title |-> Str(<<"a">>), assignees |-> Str(<<"a">>), milestone |-> ref])

MilestoneFileInputs ==
    {[format |-> "json", exists |-> TRUE,
      content |-> [malformed |-> FALSE,
                   data |-> Arr(<<RecWithMilestone(ref), RecPlain>>)]] :
        ref \in MilestoneRefs}

\* Inputs of the normalizer runs: one record whose labels and assignees are
\* strings over letters, blanks and both separators, the assignees string
\* being the labels string with any of its separators exchanged; and one
\* two-record file with a record that is rejected.
Separators == {",", ";"}

NormalizerChars == {"a", "b", " "} \cup Separators

NormalizerStrings == SeqsUpTo(NormalizerChars, MaxLen)

SeparatorVariants(s) ==
    {[n \in 1..Len(s) |-> IF s[n] \in Separators THEN c[n] ELSE s[n]] :
        c \in [1..Len(s) -> Separators]}

RecWithLists(s, t) ==
    Obj([title |-> Str(<<"a">>), labels |-> Str(s), assignees |-> Str(t)])

NormalizerFileInputs ==
    {[format |-> "json", exists |-> TRUE,
      content |-> [malformed |-> FALSE, data |-> Arr(a)]] :
        a \in UNION {{<<RecWithLists(s, t)>> : t \in SeparatorVariants(s)} :
                         s \in NormalizerStrings}
              \cup {<<RecBlankTitle, RecFull, RecPlain>>}}

\* Inputs of the termination runs: every sequence of a rejected record and
\* a record that goes through all the remote calls.
FairFileInputs ==
    {[format |-> "json", exists |-> TRUE,
      content |-> [malformed |-> FALSE, data |-> Arr(a)]] :
        a \in SeqsUpTo({RecBlankTitle, RecFull}, MaxRecords)}

\* Inputs of the field runs: records whose title, body, description, labels
\* and assignees take every JSON shape (absent, null, string, number,
\* boolean, array, object), and elements that are no objects at all; each
\* stands before and after a plain record.
BodyValues ==
    {Undef, Null, Str(<<>>), Str(<<"b">>), Num(0), Num(5), Bool(TRUE), Bool(FALSE),
     Obj([title |-> Str(<<"x">>)])}

DescriptionValues == {Undef, Str(<<>>), Str(<<"d">>), Num(7)}

RecWithBody(body, description) ==
    Obj([title |-> Str(<<"a">>), body |-> body, description |-> description])

TitleValues ==
    {Undef, Null, Str(<<>>), Str(<<" ">>), Str(<<"\t", " ">>), Str(<<"a">>),
     Str(<<" ", "a">>), Num(0), Num(5), Bool(TRUE), Bool(FALSE), Arr(<<>>),
     Obj([title |-> Str(<<"x">>)])}

RecWithTitle(title) == Obj([title |-> title, body |-> Str(<<"b">>)])

NonObjectRecords == {Null, Str(<<"a">>), Num(5), Bool(FALSE), Arr(<<>>)}

ListElements ==
    {Str(<<" ", "a">>), Str(<<"a", ";", "b">>), Str(<<"b", ",">>), Str(<<>>),
     Null, Num(1)}

ListValues ==
    {Undef, Null, Str(<<>>), Num(0), Num(5), Bool(TRUE), Bool(FALSE),
     Obj([title |-> Str(<<"x">>)])}
    \cup {Arr(a) : a \in SeqsUpTo(ListElements, MaxCandidates)}

RecWithSameLists(list) ==
    Obj([title |-> Str(<<"a">>), labels |-> list, assignees |-> list])

FieldRecords ==
    {RecWithBody(b, d) : b \in BodyValues, d \in DescriptionValues}
    \cup {RecWithTitle(t) : t \in TitleValues}
    \cup NonObjectRecords
    \cup {RecWithSameLists(x) : x \in ListValues}

FieldFileInputs ==
    {[format |-> "json", exists |-> TRUE,
      content |-> [malformed |-> FALSE, data |-> Arr(a)]] :
        a \in {<<r, RecPlain>> : r \in FieldRecords}
              \cup {<<RecPlain, r>> : r \in FieldRecords}}

\* Inputs of the parsing runs: JSON documents of every shape, each record
\* array both bare and wrapped in an object under "issues".
ParseRecords == {RecNull, RecScalar, RecPlain, RecFull}

ParseFileInputs ==
    {[format |-> "json", exists |-> TRUE, content |-> c] :
        c \in {[malformed |-> TRUE, data |-> Undef]}
              \cup {[malformed |-> FALSE, data |-> Arr(a)] :
                        a \in SeqsUpTo(ParseRecords, MaxRecords)}
              \cup {[malformed |-> FALSE, data |-> Obj([issues |-> Arr(a)])] :
                        a \in SeqsUpTo(ParseRecords, MaxRecords)}
              \cup {[malformed |-> FALSE, data |-> d] :
                        d \in {Null, Num(5), Str(<<"a">>), Bool(TRUE),
                               Obj([title |-> Str(<<"a">>)]),
                               Obj([issues |-> Str(<<"a">>)]),
                               Obj([issues |-> Null]),
                               Obj([issues |-> Obj([title |-> Str(<<"a">>)])])}}}

\* Answers of octokit.rest.issues.listMilestones.
MilestoneResponses ==
    {[ok |-> FALSE, message |-> <<"Not Found">>, data |-> <<>>],
     [ok |-> TRUE, message |-> <<>>,
      data |-> <<[title |-> <<"v">>, number |-> 10], [title |-> <<"5">>, number |-> 7]>>]}

\* Answers of octokit.rest.repos.checkCollaborator: 204, 404, or another
\* failure (status 0 stands for an error without a status).
CollaboratorResponses ==
    {[ok |-> TRUE, status |-> 204, message |-> <<>>],
     [ok |-> FALSE, status |-> 404, message |-> <<"Not Found">>],
     [ok |-> FALSE, status |-> 0, message |-> <<"API Error">>]}

\* Answers of octokit.rest.issues.create: success, or a failure with its
\* status, message, optional response.data.errors and documentation_url.
CreateResponses ==
    {[ok |-> TRUE, status |-> 201, message |-> <<>>, errors |-> Undef,
      documentation_url |-> Undef],
     [ok |-> FALSE, status |-> 422, message |-> <<"Validation Failed">>,
      errors |-> Arr(<<[field |-> Str(<<"assignees">>), code |-> Str(<<"invalid">>),
                        message |-> Undef],
                       [field |-> Str(<<"title">>), code |-> Str(<<"custom">>),
                        message |-> Str(<<"too long">>)]>>),
      documentation_url |-> Str(<<"https://docs">>)],
     [ok |-> FALSE, status |-> 422, message |-> <<"Unprocessable">>, errors |-> Undef,
      documentation_url |-> Str(<<"https://docs">>)],
     [ok |-> FALSE, status |-> 0, message |-> <<"API Error">>, errors |-> Undef,
      documentation_url |-> Undef]}

\* ------------------------------------------------------------------------
\* State
\* ------------------------------------------------------------------------

VARIABLES
    pc,               \* position of run(): start, milestones, loop, assignees,
                      \* awaitCollab, create, awaitCreate, pause, done
    dryRun,           \* input dry-run
    fileInput,        \* inputs file-format, file-path and the file's content
    issues,           \* the parsed records
    milestoneMap,     \* title -> number
    i,                \* loop index of run(), 0-based
    parsedAssignees,  \* validateIssue: parseAssignees(issue.assignees)
    validAssignees,   \* validateAssignees: the accumulator
    k,                \* validateAssignees: candidates handled so far
    validatedIssue,   \* the issue validateIssue returned
    results,          \* outcomes, in push order
    successCount,
    failureCount,
    outputs,          \* core.setOutput values
    failed,           \* the message given to core.setFailed, or undefined
    calls,            \* remote requests in issue order, each with its reply
    remoteIssues,     \* issues the remote has created
    warnings,         \* core.warning calls
    pauses            \* loop indexes after which the 100ms timer was started

vars ==
    <<pc, dryRun, fileInput, issues, milestoneMap, i, parsedAssignees,
      validAssignees, k, validatedIssue, results, successCount, failureCount,
      outputs, failed, calls, remoteIssues, warnings, pauses>>

NoOutputs == [created |-> Undef, failedCount |-> Undef, summary |-> Undef]

InitWith(inputs) ==
    /\ pc = "start"
    /\ dryRun \in BOOLEAN
    /\ fileInput \in inputs
    /\ issues = <<>>
    /\ milestoneMap = EmptyMap
    /\ i = 0
    /\ parsedAssignees = <<>>
    /\ validAssignees = <<>>
    /\ k = 0
    /\ validatedIssue = Undef
    /\ results = <<>>
    /\ successCount = 0
    /\ failureCount = 0
    /\ outputs = NoOutputs
    /\ failed = Undef
    /\ calls = <<>>
    /\ remoteIssues = 0
    /\ warnings = <<>>
    /\ pauses = <<>>

Init == InitWith(FileInputs)

InitAssignees == InitWith(AssigneeFileInputs)

InitMilestones == InitWith(MilestoneFileInputs)

InitParse == InitWith(ParseFileInputs)

InitNormalizers == InitWith(NormalizerFileInputs)

InitFair == InitWith(FairFileInputs)

InitFields == InitWith(FieldFileInputs)

\* ------------------------------------------------------------------------
\* Remote requests
\* ------------------------------------------------------------------------

\* A request handed to octokit: the awaiting code resumes on its reply.
Request(op, rec, arg) ==
    [op |-> op, rec |-> rec, arg |-> arg, reply |-> "pending", answer |-> Undef]

\* The reply of the request in flight (the last one issued).
Answered(resp) ==
    [calls EXCEPT ![Len(calls)].reply = IF resp.ok THEN "ok" ELSE "error",
                  ![Len(calls)].answer = resp]

InFlight == {n \in 1..Len(calls) : calls[n].reply = "pending"}

\* ------------------------------------------------------------------------
\* createIssue: payload and outcomes
\* ------------------------------------------------------------------------

\* Variant of Payload: labels and assignees are sent even when empty.
PayloadSendsEmpty(issue) ==
    [key \in {"owner", "repo", "title", "body", "labels", "assignees"}
             \cup (IF Truthy(issue.milestone) THEN {"milestone"} ELSE {}) |->
        CASE key = "owner" -> Str(<<"owner">>)
          [] key = "repo" -> Str(<<"repo">>)
          [] key = "title" -> issue.title
          [] key = "body" -> issue.body
          [] key = "labels" -> issue.labels
          [] key = "assignees" -> issue.assignees
          [] key = "milestone" -> issue.milestone]

\* The payload createIssue hands to octokit.rest.issues.create.
Payload(issue) ==
    [key \in {"owner", "repo", "title", "body"}
             \cup (IF Len(issue.labels) > 0 THEN {"labels"} ELSE {})
             \cup (IF Len(issue.assignees) > 0 THEN {"assignees"} ELSE {})
             \cup (IF Truthy(issue.milestone) THEN {"milestone"} ELSE {}) |->
        CASE key = "owner" -> Str(<<"owner">>)
          [] key = "repo" -> Str(<<"repo">>)
          [] key = "title" -> issue.title
          [] key = "body" -> issue.body
          [] key = "labels" -> issue.labels
          [] key = "assignees" -> issue.assignees
          [] key = "milestone" -> issue.milestone]

\* One entry of the "Validation Failed" message.
FieldErrorText(err) ==
    ToStr(err.field) \o <<": ">> \o ToStr(err.code) \o <<" - ">>
        \o ToStr(OrElse(err.message, Str(<<"Validation failed">>)))

\* Variant of createErrorMessage: every 422 is reformatted, with or without
\* response.data.errors.
createErrorMessageAny422(error) ==
    IF error.status = 422
    THEN <<"Validation Failed: ">>
            \o (IF Truthy(error.errors)
                THEN Join([n \in 1..Len(error.errors.v) |->
                              FieldErrorText(error.errors.v[n])], <<"; ">>)
                ELSE <<>>)
    ELSE error.message

\* The errorMessage the catch block of createIssue computes.
createErrorMessage(error) ==
    IF error.status = 422 /\ Truthy(error.errors)
    THEN <<"Validation Failed: ">> \o Join([n \in 1..Len(error.errors.v) |-> FieldErrorText(error.errors.v[n])], <<"; ">>)
    ELSE error.message

\* The three values createIssue returns.
createIssueDryRun(issue) ==
    [status |-> "dry-run", title |-> issue.title, number |-> Str(<<"DRY-RUN">>)]

createIssueCreated(issue, number) ==
    [status |-> "created", title |-> issue.title, number |-> Num(number),
     url |-> Str(<<"https://github.com/owner/repo/issues/">> \o NumToStr(number))]

\* Variant of createIssueFailed: the outcome loses the issue's title.
createIssueFailedUntitled(issue, error) ==
    [status |-> "failed", title |-> Str(<<"Unknown">>), error |-> createErrorMessage(error)]

createIssueFailed(issue, error) ==
    [status |-> "failed", title |-> issue.title, error |-> createErrorMessage(error)]

\* ------------------------------------------------------------------------
\* run(): the steps between two awaits
\* ------------------------------------------------------------------------

\* The outer catch of run(): core.setFailed, and run() returns.
Abort(message) ==
    /\ failed' = Str(<<"Action failed: ">> \o message)
    /\ pc' = "done"
    /\ UNCHANGED <<dryRun, fileInput, issues, milestoneMap, i, parsedAssignees,
                   validAssignees, k, validatedIssue, results, successCount,
                   failureCount, outputs, calls, remoteIssues, warnings, pauses>>

\* Variant of RunStart: a file without records is not an error, the batch
\* is run over nothing.
RunStartAcceptsEmpty ==
    /\ pc = "start"
    /\ LET parsed == IF fileInput.format = "csv"
                     THEN parseCsvFile(fileInput.content)
                     ELSE parseJsonFile(fileInput.content)
       IN IF fileInput.format \notin {"csv", "json"}
          THEN Abort(<<"file-format must be either \"csv\" or \"json\"">>)
          ELSE IF ~fileInput.exists
          THEN Abort(<<"File not found: ", "file-path">>)
          ELSE IF ~parsed.ok
          THEN Abort(parsed.message)
          ELSE IF parsed.value.t # "array"
          THEN Abort(<<"No issues found in the input file">>)
          ELSE /\ issues' = parsed.value.v
               /\ calls' = Append(calls, Request("listMilestones", -1, Undef))
               /\ pc' = "milestones"
               /\ UNCHANGED <<dryRun, fileInput, milestoneMap, i, parsedAssignees,
                              validAssignees, k, validatedIssue, results,
                              successCount, failureCount, outputs, failed,
                              remoteIssues, warnings, pauses>>

\* Variant of RunStart: the milestone listing is requested before the file
\* is parsed.
RunStartFetchesFirst ==
    /\ pc = "start"
    /\ LET parsed == IF fileInput.format = "csv"
                     THEN parseCsvFile(fileInput.content)
                     ELSE parseJsonFile(fileInput.content)
       IN IF fileInput.format \notin {"csv", "json"}
          THEN Abort(<<"file-format must be either \"csv\" or \"json\"">>)
          ELSE IF ~fileInput.exists
          THEN Abort(<<"File not found: ", "file-path">>)
          ELSE /\ calls' = Append(calls, Request("listMilestones", -1, Undef))
               /\ IF ~parsed.ok
                  THEN /\ failed' = Str(<<"Action failed: ">> \o parsed.message)
                       /\ pc' = "done"
                       /\ UNCHANGED issues
                  ELSE IF parsed.value.t # "array" \/ Len(parsed.value.v) = 0
                  THEN /\ failed' = Str(<<"Action failed: ",
                                         "No issues found in the input file">>)
                       /\ pc' = "done"
                       /\ UNCHANGED issues
                  ELSE /\ issues' = parsed.value.v
                       /\ pc' = "milestones"
                       /\ UNCHANGED failed
               /\ UNCHANGED <<dryRun, fileInput, milestoneMap, i, parsedAssignees,
                              validAssignees, k, validatedIssue, results,
                              successCount, failureCount, outputs,
                              remoteIssues, warnings, pauses>>

\* Input validation and parsing, up to the await of getMilestoneMapping.
RunStart ==
    /\ pc = "start"
    /\ LET parsed == IF fileInput.format = "csv"
                     THEN parseCsvFile(fileInput.content)
                     ELSE parseJsonFile(fileInput.content)
       IN IF fileInput.format \notin {"csv", "json"}
          THEN Abort(<<"file-format must be either \"csv\" or \"json\"">>)
          ELSE IF ~fileInput.exists
          THEN Abort(<<"File not found: ", "file-path">>)
          ELSE IF ~parsed.ok
          THEN Abort(parsed.message)
          ELSE IF parsed.value.t # "array" \/ Len(parsed.value.v) = 0
          THEN Abort(<<"No issues found in the input file">>)
          ELSE /\ issues' = parsed.value.v
               /\ calls' = Append(calls, Request("listMilestones", -1, Undef))
               /\ pc' = "milestones"
               /\ UNCHANGED <<dryRun, fileInput, milestoneMap, i, parsedAssignees,
                              validAssignees, k, validatedIssue, results,
                              successCount, failureCount, outputs, failed,
                              remoteIssues, warnings, pauses>>

\* Variant of GetMilestoneMappingReply: a failed listing is not caught and
\* ends the run in the outer catch.
GetMilestoneMappingReplyRethrows ==
    /\ pc = "milestones"
    /\ \E resp \in MilestoneResponses :
        /\ calls' = Answered(resp)
        /\ IF resp.ok
           THEN /\ milestoneMap' = MilestoneMapOf(resp.data)
                /\ pc' = "loop"
                /\ UNCHANGED failed
           ELSE /\ milestoneMap' = EmptyMap
                /\ pc' = "done"
                /\ failed' = Str(<<"Action failed: ">> \o resp.message)
    /\ results' = <<>>
    /\ successCount' = 0
    /\ failureCount' = 0
    /\ i' = 0
    /\ UNCHANGED <<dryRun, fileInput, issues, parsedAssignees, validAssignees, k,
                   validatedIssue, outputs, remoteIssues, pauses, warnings>>

\* getMilestoneMapping resumes on the listing's reply; the loop is entered.
GetMilestoneMappingReply ==
    /\ pc = "milestones"
    /\ \E resp \in MilestoneResponses :
        /\ calls' = Answered(resp)
        /\ IF resp.ok
           THEN /\ milestoneMap' = MilestoneMapOf(resp.data)
                /\ UNCHANGED warnings
           ELSE /\ milestoneMap' = EmptyMap
                /\ warnings' = Append(warnings,
                       [kind |-> "milestones-fetch-failed", about |-> resp.message])
    /\ results' = <<>>
    /\ successCount' = 0
    /\ failureCount' = 0
    /\ i' = 0
    /\ pc' = "loop"
    /\ UNCHANGED <<dryRun, fileInput, issues, parsedAssignees, validAssignees, k,
                   validatedIssue, outputs, failed, remoteIssues, pauses>>

\* Variant of Caught: the outcome never carries the record's title.
CaughtAlwaysUnknown(message) ==
    /\ results' = Append(results,
           [status |-> "failed",
            title |-> Str(<<"Unknown">>),
            error |-> message])
    /\ failureCount' = failureCount + 1
    /\ i' = i + 1
    /\ pc' = "loop"
    /\ UNCHANGED <<dryRun, fileInput, issues, milestoneMap, parsedAssignees,
                   validAssignees, k, validatedIssue, successCount, outputs,
                   failed, calls, remoteIssues, warnings, pauses>>

\* Variant of Caught: the failure is recorded and the loop is left.
CaughtLeavesLoop(message) ==
    /\ results' = Append(results,
           [status |-> "failed",
            title |-> OrElse(GetOpt(issues[i + 1], "title"), Str(<<"Unknown">>)),
            error |-> message])
    /\ failureCount' = failureCount + 1
    /\ i' = Len(issues)
    /\ pc' = "loop"
    /\ UNCHANGED <<dryRun, fileInput, issues, milestoneMap, parsedAssignees,
                   validAssignees, k, validatedIssue, successCount, outputs,
                   failed, calls, remoteIssues, warnings, pauses>>

\* The catch of the loop body: the record's failure is recorded and the
\* loop goes on with the next record.
Caught(message) ==
    /\ results' = Append(results,
           [status |-> "failed",
            title |-> OrElse(GetOpt(issues[i + 1], "title"), Str(<<"Unknown">>)),
            error |-> message])
    /\ failureCount' = failureCount + 1
    /\ i' = i + 1
    /\ pc' = "loop"
    /\ UNCHANGED <<dryRun, fileInput, issues, milestoneMap, parsedAssignees,
                   validAssignees, k, validatedIssue, successCount, outputs,
                   failed, calls, remoteIssues, warnings, pauses>>

\* Variant of ValidateIssueBegin: in a dry run the candidates are kept
\* without asking the repository.
ValidateIssueBeginTrustsInDryRun ==
    /\ pc = "loop"
    /\ i < Len(issues)
    /\ LET issue == issues[i + 1]
       IN IF GetThrows(issue)
          THEN Caught(<<"Cannot read properties of null (reading 'title')">>)
          ELSE IF InvalidTitle(Get(issue, "title"))
          THEN Caught(<<"Issue at index ">> \o NumToStr(i) \o <<" is missing a valid title">>)
          ELSE /\ parsedAssignees' = parseAssignees(Get(issue, "assignees"))
               /\ validAssignees' = IF dryRun THEN parsedAssignees' ELSE <<>>
               /\ k' = IF dryRun THEN Len(parsedAssignees') ELSE 0
               /\ pc' = "assignees"
               /\ UNCHANGED <<dryRun, fileInput, issues, milestoneMap, i,
                              validatedIssue, results, successCount, failureCount,
                              outputs, failed, calls, remoteIssues, warnings, pauses>>

\* validateIssue up to the await of validateAssignees: the title test, then
\* parseAssignees.
ValidateIssueBegin ==
    /\ pc = "loop"
    /\ i < Len(issues)
    /\ LET issue == issues[i + 1]
       IN IF GetThrows(issue)
          THEN Caught(<<"Cannot read properties of null (reading 'title')">>)
          ELSE IF InvalidTitle(Get(issue, "title"))
          THEN Caught(<<"Issue at index ">> \o NumToStr(i) \o <<" is missing a valid title">>)
          ELSE /\ parsedAssignees' = parseAssignees(Get(issue, "assignees"))
               /\ validAssignees' = <<>>
               /\ k' = 0
               /\ pc' = "assignees"
               /\ UNCHANGED <<dryRun, fileInput, issues, milestoneMap, i,
                              validatedIssue, results, successCount, failureCount,
                              outputs, failed, calls, remoteIssues, warnings, pauses>>

\* Variant of CheckCollaboratorSend: the checks of all remaining candidates
\* are issued together, without awaiting one before the next.
CheckCollaboratorSendAll ==
    /\ pc = "assignees"
    /\ k < Len(parsedAssignees)
    /\ calls' = calls \o [n \in 1..(Len(parsedAssignees) - k) |->
                            Request("checkCollaborator", i, parsedAssignees[k + n])]
    /\ pc' = "awaitCollab"
    /\ UNCHANGED <<dryRun, fileInput, issues, milestoneMap, i, parsedAssignees,
                   validAssignees, k, validatedIssue, results, successCount,
                   failureCount, outputs, failed, remoteIssues, warnings, pauses>>

\* Variant of CheckCollaboratorSend: a candidate already confirmed is kept
\* again without a second query.
CheckCollaboratorSendOncePerName ==
    /\ pc = "assignees"
    /\ k < Len(parsedAssignees)
    /\ IF \E n \in 1..Len(validAssignees) : validAssignees[n] = parsedAssignees[k + 1]
       THEN /\ validAssignees' = Append(validAssignees, parsedAssignees[k + 1])
            /\ k' = k + 1
            /\ UNCHANGED <<calls, pc>>
       ELSE /\ calls' = Append(calls, Request("checkCollaborator", i, parsedAssignees[k + 1]))
            /\ pc' = "awaitCollab"
            /\ UNCHANGED <<validAssignees, k>>
    /\ UNCHANGED <<dryRun, fileInput, issues, milestoneMap, i, parsedAssignees,
                   validatedIssue, results, successCount,
                   failureCount, outputs, failed, remoteIssues, warnings, pauses>>

\* validateAssignees: the next candidate's collaborator check is issued.
CheckCollaboratorSend ==
    /\ pc = "assignees"
    /\ k < Len(parsedAssignees)
    /\ calls' = Append(calls, Request("checkCollaborator", i, parsedAssignees[k + 1]))
    /\ pc' = "awaitCollab"
    /\ UNCHANGED <<dryRun, fileInput, issues, milestoneMap, i, parsedAssignees,
                   validAssignees, k, validatedIssue, results, successCount,
                   failureCount, outputs, failed, remoteIssues, warnings, pauses>>

\* Variant of CheckCollaboratorReply: only a 404 drops the candidate, any
\* other failure keeps it.
CheckCollaboratorReplyKeepsOnError ==
    /\ pc = "awaitCollab"
    /\ \E resp \in CollaboratorResponses :
        /\ calls' = Answered(resp)
        /\ IF resp.status # 404
           THEN /\ validAssignees' = Append(validAssignees, parsedAssignees[k + 1])
                /\ UNCHANGED warnings
           ELSE /\ warnings' = Append(warnings,
                       [kind |-> "assignee-not-collaborator",
                        about |-> parsedAssignees[k + 1]])
                /\ UNCHANGED validAssignees
    /\ k' = k + 1
    /\ pc' = "assignees"
    /\ UNCHANGED <<dryRun, fileInput, issues, milestoneMap, i, parsedAssignees,
                   validatedIssue, results, successCount, failureCount, outputs,
                   failed, remoteIssues, pauses>>

\* validateAssignees resumes on the check's reply: keep, or warn and skip.
CheckCollaboratorReply ==
    /\ pc = "awaitCollab"
    /\ \E resp \in CollaboratorResponses :
        /\ calls' = Answered(resp)
        /\ IF resp.ok
           THEN /\ validAssignees' = Append(validAssignees, parsedAssignees[k + 1])
                /\ UNCHANGED warnings
           ELSE /\ warnings' = Append(warnings,
                       [kind |-> IF resp.status = 404 THEN "assignee-not-collaborator"
                                 ELSE "assignee-not-validated",
                        about |-> parsedAssignees[k + 1]])
                /\ UNCHANGED validAssignees
    /\ k' = k + 1
    /\ pc' = "assignees"
    /\ UNCHANGED <<dryRun, fileInput, issues, milestoneMap, i, parsedAssignees,
                   validatedIssue, results, successCount, failureCount, outputs,
                   failed, remoteIssues, pauses>>

\* Variant of ValidateIssueFinish: the body falls back to the description
\* only when the body field is absent or null (issue.body ?? ...).
ValidateIssueFinishNullish ==
    /\ pc = "assignees"
    /\ k >= Len(parsedAssignees)
    /\ LET issue == issues[i + 1]
           milestone == resolveMilestone(Get(issue, "milestone"), milestoneMap)
           orNullish(x, y) == IF x.t \in {"undefined", "null"} THEN y ELSE x
       IN /\ validatedIssue' =
                [title |-> Str(Trim(Get(issue, "title").v)),
                 body |-> orNullish(orNullish(Get(issue, "body"),
                                              Get(issue, "description")),
                                    Str(<<>>)),
                 labels |-> parseLabels(Get(issue, "labels")),
                 assignees |-> validAssignees,
                 milestone |-> milestone.value]
          /\ warnings' = IF milestone.warned
                         THEN Append(warnings, [kind |-> "milestone-not-found",
                                                about |-> ToStr(Get(issue, "milestone"))])
                         ELSE warnings
    /\ pc' = "create"
    /\ UNCHANGED <<dryRun, fileInput, issues, milestoneMap, i, parsedAssignees,
                   validAssignees, k, results, successCount, failureCount, outputs,
                   failed, calls, remoteIssues, pauses>>

\* validateAssignees has returned: validateIssue builds the normalized issue.
ValidateIssueFinish ==
    /\ pc = "assignees"
    /\ k >= Len(parsedAssignees)
    /\ LET issue == issues[i + 1]
           milestone == resolveMilestone(Get(issue, "milestone"), milestoneMap)
       IN /\ validatedIssue' =
                [title |-> Str(Trim(Get(issue, "title").v)),
                 body |-> OrElse(OrElse(Get(issue, "body"), Get(issue, "description")),
                                 Str(<<>>)),
                 labels |-> parseLabels(Get(issue, "labels")),
                 assignees |-> validAssignees,
                 milestone |-> milestone.value]
          /\ warnings' = IF milestone.warned
                         THEN Append(warnings, [kind |-> "milestone-not-found",
                                                about |-> ToStr(Get(issue, "milestone"))])
                         ELSE warnings
    /\ pc' = "create"
    /\ UNCHANGED <<dryRun, fileInput, issues, milestoneMap, i, parsedAssignees,
                   validAssignees, k, results, successCount, failureCount, outputs,
                   failed, calls, remoteIssues, pauses>>

\* Variant of RecordResult: the pause does not depend on the run mode.
RecordResultPausesInDryRun(result) ==
    /\ results' = Append(results, result)
    /\ IF result.status \in {"created", "dry-run"}
       THEN successCount' = successCount + 1 /\ UNCHANGED failureCount
       ELSE failureCount' = failureCount + 1 /\ UNCHANGED successCount
    /\ IF i < Len(issues) - 1
       THEN pc' = "pause" /\ pauses' = Append(pauses, i) /\ UNCHANGED i
       ELSE pc' = "loop" /\ i' = i + 1 /\ UNCHANGED pauses

\* Variant of RecordResult: only a created outcome counts as a success.
RecordResultCreatedOnly(result) ==
    /\ results' = Append(results, result)
    /\ IF result.status = "created"
       THEN successCount' = successCount + 1 /\ UNCHANGED failureCount
       ELSE failureCount' = failureCount + 1 /\ UNCHANGED successCount
    /\ IF ~dryRun /\ i < Len(issues) - 1
       THEN pc' = "pause" /\ pauses' = Append(pauses, i) /\ UNCHANGED i
       ELSE pc' = "loop" /\ i' = i + 1 /\ UNCHANGED pauses

\* The loop body after createIssue has returned: push, count, pause.
RecordResult(result) ==
    /\ results' = Append(results, result)
    /\ IF result.status \in {"created", "dry-run"}
       THEN successCount' = successCount + 1 /\ UNCHANGED failureCount
       ELSE failureCount' = failureCount + 1 /\ UNCHANGED successCount
    /\ IF ~dryRun /\ i < Len(issues) - 1
       THEN pc' = "pause" /\ pauses' = Append(pauses, i) /\ UNCHANGED i
       ELSE pc' = "loop" /\ i' = i + 1 /\ UNCHANGED pauses

\* createIssue in a dry run: no request, the outcome is returned at once.
CreateIssueDryRun ==
    /\ pc = "create"
    /\ dryRun
    /\ RecordResult(createIssueDryRun(validatedIssue))
    /\ UNCHANGED <<dryRun, fileInput, issues, milestoneMap, parsedAssignees,
                   validAssignees, k, validatedIssue, outputs, failed, calls,
                   remoteIssues, warnings>>

\* Variant of CreateIssueSend: the request is made in a dry run too.
CreateIssueSendInDryRun ==
    /\ pc = "create"
    /\ calls' = Append(calls, Request("create", i, Payload(validatedIssue)))
    /\ pc' = "awaitCreate"
    /\ UNCHANGED <<dryRun, fileInput, issues, milestoneMap, i, parsedAssignees,
                   validAssignees, k, validatedIssue, results, successCount,
                   failureCount, outputs, failed, remoteIssues, warnings, pauses>>

\* createIssue outside a dry run: the payload is built and sent.
CreateIssueSend ==
    /\ pc = "create"
    /\ ~dryRun
    /\ calls' = Append(calls, Request("create", i, Payload(validatedIssue)))
    /\ pc' = "awaitCreate"
    /\ UNCHANGED <<dryRun, fileInput, issues, milestoneMap, i, parsedAssignees,
                   validAssignees, k, validatedIssue, results, successCount,
                   failureCount, outputs, failed, remoteIssues, warnings, pauses>>

\* Variant of CreateIssueReply: a create that failed is requested a second
\* time before it becomes an outcome.
CreateIssueReplyRetriesOnce ==
    /\ pc = "awaitCreate"
    /\ \E resp \in CreateResponses :
        /\ calls' = Answered(resp)
        /\ IF resp.ok
           THEN /\ remoteIssues' = remoteIssues + 1
                /\ RecordResult(createIssueCreated(validatedIssue, remoteIssues + 1))
           ELSE IF Len(SelectSeq(calls, LAMBDA c : c.rec = i /\ c.op = "create")) < 2
           THEN /\ pc' = "create"
                /\ UNCHANGED <<remoteIssues, results, successCount, failureCount,
                               i, pauses>>
           ELSE /\ UNCHANGED remoteIssues
                /\ RecordResult(createIssueFailed(validatedIssue, resp))
    /\ UNCHANGED <<dryRun, fileInput, issues, milestoneMap, parsedAssignees,
                   validAssignees, k, validatedIssue, outputs, failed, warnings>>

\* Variant of CreateIssueReply: a failed create is thrown to the outer catch
\* of run() instead of becoming an outcome.
CreateIssueReplyAborts ==
    /\ pc = "awaitCreate"
    /\ \E resp \in CreateResponses :
        /\ calls' = Answered(resp)
        /\ IF resp.ok
           THEN /\ remoteIssues' = remoteIssues + 1
                /\ RecordResult(createIssueCreated(validatedIssue, remoteIssues + 1))
                /\ UNCHANGED failed
           ELSE /\ failed' = Str(<<"Action failed: ">> \o createErrorMessage(resp))
                /\ pc' = "done"
                /\ UNCHANGED <<remoteIssues, results, successCount, failureCount,
                               i, pauses>>
    /\ UNCHANGED <<dryRun, fileInput, issues, milestoneMap, parsedAssignees,
                   validAssignees, k, validatedIssue, outputs, warnings>>

\* createIssue resumes on the reply and returns Created or Failed.
CreateIssueReply ==
    /\ pc = "awaitCreate"
    /\ \E resp \in CreateResponses :
        /\ calls' = Answered(resp)
        /\ IF resp.ok
           THEN /\ remoteIssues' = remoteIssues + 1
                /\ RecordResult(createIssueCreated(validatedIssue, remoteIssues + 1))
           ELSE /\ UNCHANGED remoteIssues
                /\ RecordResult(createIssueFailed(validatedIssue, resp))
    /\ UNCHANGED <<dryRun, fileInput, issues, milestoneMap, parsedAssignees,
                   validAssignees, k, validatedIssue, outputs, failed, warnings>>

\* The 100ms timer fires and the loop goes on.
PauseElapsed ==
    /\ pc = "pause"
    /\ i' = i + 1
    /\ pc' = "loop"
    /\ UNCHANGED <<dryRun, fileInput, issues, milestoneMap, parsedAssignees,
                   validAssignees, k, validatedIssue, results, successCount,
                   failureCount, outputs, failed, calls, remoteIssues, warnings,
                   pauses>>

\* The summary string of run().
SummaryText(success, failure) ==
    <<"Import completed: ">> \o NumToStr(success) \o <<" successful, ">>
        \o NumToStr(failure) \o <<" failed">>

\* Variant of Summarize: failures fail the run in a dry run too.
SummarizeIgnoresDryRun ==
    /\ pc = "loop"
    /\ i >= Len(issues)
    /\ outputs' = [created |-> Str(NumToStr(successCount)),
                   failedCount |-> Str(NumToStr(failureCount)),
                   summary |-> Str(<<"Import completed: ">> \o NumToStr(successCount)
                                    \o <<" successful, ">> \o NumToStr(failureCount)
                                    \o <<" failed">>)]
    /\ failed' = IF failureCount > 0
                 THEN Str(NumToStr(failureCount) \o <<" issues failed to import">>)
                 ELSE failed
    /\ pc' = "done"
    /\ UNCHANGED <<dryRun, fileInput, issues, milestoneMap, i, parsedAssignees,
                   validAssignees, k, validatedIssue, results, successCount,
                   failureCount, calls, remoteIssues, warnings, pauses>>

\* After the loop: summary, outputs and the overall verdict.
Summarize ==
    /\ pc = "loop"
    /\ i >= Len(issues)
    /\ outputs' = [created |-> Str(NumToStr(successCount)),
                   failedCount |-> Str(NumToStr(failureCount)),
                   summary |-> Str(SummaryText(successCount, failureCount))]
    /\ failed' = IF failureCount > 0 /\ ~dryRun
                 THEN Str(NumToStr(failureCount) \o <<" issues failed to import">>)
                 ELSE failed
    /\ pc' = "done"
    /\ UNCHANGED <<dryRun, fileInput, issues, milestoneMap, i, parsedAssignees,
                   validAssignees, k, validatedIssue, results, successCount,
                   failureCount, calls, remoteIssues, warnings, pauses>>

Next ==
    \/ RunStart
    \/ GetMilestoneMappingReply
    \/ ValidateIssueBegin
    \/ CheckCollaboratorSend
    \/ CheckCollaboratorReply
    \/ ValidateIssueFinish
    \/ CreateIssueDryRun
    \/ CreateIssueSend
    \/ CreateIssueReply
    \/ PauseElapsed
    \/ Summarize

Spec == Init /\ [][Next]_vars

\* The runs over the assignee-validation inputs.
SpecAssignees == InitAssignees /\ [][Next]_vars

\* The runs over the milestone-resolution inputs.
SpecMilestones == InitMilestones /\ [][Next]_vars

\* The runs in which no enabled step is put off forever: the event loop
\* resumes run() when the awaited promise settles, every remote call is
\* answered, and the timer fires.
FairSpec == InitFair /\ [][Next]_vars /\ WF_vars(Next)

\* The runs over the field inputs.
SpecFields == InitFields /\ [][Next]_vars

\* The runs over the parsing inputs.
SpecParse == InitParse /\ [][Next]_vars

\* The runs over the normalizer inputs.
SpecNormalizers == InitNormalizers /\ [][Next]_vars

\* ------------------------------------------------------------------------
\* Vocabulary of the properties
\* ------------------------------------------------------------------------

\* The record has no usable title: it is not an object, its title is not a
\* string, or every character of the title is white space.
TitleMissingOrBlank(rec) ==
    \/ rec.t # "object"
    \/ rec.f["title"].t # "string"
    \/ \A n \in 1..Len(rec.f["title"].v) : rec.f["title"].v[n] \in WhiteSpace

\* The remote requests made on behalf of the record at loop index r.
CallsFor(r) == SelectSeq(calls, LAMBDA c : c.rec = r)

ChecksFor(r) == SelectSeq(calls, LAMBDA c : c.rec = r /\ c.op = "checkCollaborator")

CreatesFor(r) == SelectSeq(calls, LAMBDA c : c.rec = r /\ c.op = "create")

CountStatus(S) == Len(SelectSeq(results, LAMBDA r : r.status \in S))

\* The candidates whose collaborator check was answered with success.
RECURSIVE KeptCandidates(_, _)
KeptCandidates(cands, checks) ==
    IF cands = <<>> \/ checks = <<>> THEN <<>>
    ELSE (IF Head(checks).reply = "ok" THEN <<Head(cands)>> ELSE <<>>)
            \o KeptCandidates(Tail(cands), Tail(checks))

\* A string that is an integer literal in canonical decimal form: "0", or an
\* optional minus sign and digits that do not start with a zero.
IsIntegerLiteral(s) ==
    LET d == IF s # <<>> /\ Head(s) = "-" THEN Tail(s) ELSE s
    IN /\ d # <<>>
       /\ \A n \in 1..Len(d) : IsDigit(d[n])
       /\ d[1] = "0" => (Len(d) = 1 /\ s = d)

LiteralValue(s) ==
    IF Head(s) = "-" THEN 0 - DigitsValue(Tail(s), 0) ELSE DigitsValue(s, 0)

\* The reference is absent or falsy: undefined, null, "" or 0.
AbsentReference(ref) ==
    \/ ref.t \in {"undefined", "null"}
    \/ ref = Str(<<>>)
    \/ ref = Num(0)

\* The milestone the stated precedence gives a string|number reference.
ExpectedMilestone(ref, map) ==
    IF AbsentReference(ref) THEN Null
    ELSE IF ref.t = "number" THEN ref
    ELSE IF IsIntegerLiteral(ref.v) THEN Num(LiteralValue(ref.v))
    ELSE IF ref.v \in DOMAIN map THEN Num(map[ref.v])
    ELSE Null

\* The stated precedence ends in the warning: a string that is neither an
\* integer literal nor a title of the map.
ExpectedWarning(ref, map) ==
    /\ ~AbsentReference(ref)
    /\ ref.t = "string"
    /\ ~IsIntegerLiteral(ref.v)
    /\ ref.v \notin DOMAIN map

MilestoneWarnings == SelectSeq(warnings, LAMBDA w : w.kind = "milestone-not-found")

\* The records handled so far whose milestone reference ends in the warning.
WarnedRecords ==
    {n \in 1..(i + 1) :
        /\ n <= Len(issues)
        /\ ~TitleMissingOrBlank(issues[n])
        /\ ExpectedWarning(issues[n].f["milestone"], milestoneMap)}

\* A string whose entire content reads as an integer: an optional sign,
\* plus or minus, then digits only; leading zeros allowed.
IsSignedDigits(s) ==
    LET d == IF s # <<>> /\ Head(s) \in {"-", "+"} THEN Tail(s) ELSE s
    IN /\ d # <<>>
       /\ \A n \in 1..Len(d) : IsDigit(d[n])

SignedDigitsValue(s) ==
    IF Head(s) = "-" THEN 0 - DigitsValue(Tail(s), 0)
    ELSE IF Head(s) = "+" THEN DigitsValue(Tail(s), 0)
    ELSE DigitsValue(s, 0)

\* A "milestone not found" warning was logged about the reference.
WarnedAbout(ref) ==
    \E n \in 1..Len(warnings) :
        warnings[n].kind = "milestone-not-found" /\ warnings[n].about = ref.v

\* The pieces of a string, read left to right: a piece ends at a comma or a
\* semicolon; it is kept, trimmed, unless trimming leaves nothing.
KeptPiece(piece) == IF Trim(piece) = <<>> THEN <<>> ELSE <<Trim(piece)>>

RECURSIVE PiecesFrom(_, _, _)
PiecesFrom(s, n, piece) ==
    IF n > Len(s) THEN KeptPiece(piece)
    ELSE IF s[n] \in {",", ";"}
    THEN KeptPiece(piece) \o PiecesFrom(s, n + 1, <<>>)
    ELSE PiecesFrom(s, n + 1, Append(piece, s[n]))

Pieces(s) == PiecesFrom(s, 1, <<>>)

\* Two strings that differ at most in which separator stands where.
SameUpToSeparators(s, t) ==
    /\ Len(s) = Len(t)
    /\ \A n \in 1..Len(s) : s[n] = t[n] \/ {s[n], t[n]} \subseteq {",", ";"}

\* The list a labels or assignees field stands for: the pieces of a string,
\* the non-empty strings of an array, nothing otherwise.
ExpectedList(x) ==
    IF x.t = "string" THEN Pieces(x.v)
    ELSE IF x.t = "array"
    THEN StringsOf(SelectSeq(x.v, LAMBDA el : el.t = "string" /\ el.v # <<>>))
    ELSE <<>>

\* The normalized issue of a valid record, from the record, the milestone
\* map and the answers to the record's collaborator checks; the run mode
\* does not enter.
ExpectedIssue(rec, map, checks) ==
    [title |-> Str(Trim(rec.f["title"].v)),
     body |-> IF Truthy(rec.f["body"]) THEN rec.f["body"]
              ELSE IF Truthy(rec.f["description"]) THEN rec.f["description"]
              ELSE Str(<<>>),
     labels |-> ExpectedList(rec.f["labels"]),
     assignees |-> KeptCandidates(ExpectedList(rec.f["assignees"]), checks),
     milestone |-> ExpectedMilestone(rec.f["milestone"], map)]

\* No create request has been answered with a failure.
CreatesAllSucceed ==
    \A n \in 1..Len(calls) : calls[n].op = "create" => calls[n].reply # "error"

\* The loop indexes of the records after which the run has paused.
PausedRecords == {pauses[n] : n \in 1..Len(pauses)}

\* createIssue has returned for the record at loop index r of a non-dry
\* run: its create request was issued and answered.
CreationReturned(r) ==
    /\ CreatesFor(r) # <<>>
    /\ CreatesFor(r)[1].reply # "pending"

\* A field the record holds (a JSON document has no undefined values).
Present(x) == x.t # "undefined"

\* A field whose value passes a JavaScript truth test: present, and not
\* null, the empty string, 0 or false.
Filled(x) ==
    /\ Present(x)
    /\ x # Null
    /\ x # Str(<<>>)
    /\ x # Num(0)
    /\ x # Bool(FALSE)

\* The loop indexes of the records that pass validation.
ValidRecords == {r \in 0..(Len(issues) - 1) : ~TitleMissingOrBlank(issues[r + 1])}

AllCreates == SelectSeq(calls, LAMBDA c : c.op = "create")

\* The elements of a sequence that are non-empty strings, as they stand.
RECURSIVE StringElements(_)
StringElements(xs) ==
    IF xs = <<>> THEN <<>>
    ELSE (IF Head(xs).t = "string" /\ Head(xs).v # <<>> THEN <<Head(xs).v>> ELSE <<>>)
             \o StringElements(Tail(xs))

\* The value is a string with at least one character.
IsFilledString(x) == x.t = "string" /\ x.v # <<>>

\* The text of the field errors of a rejected create: field, code and
\* message of each, in order, a semicolon between two entries.
RECURSIVE FieldEntries(_)
FieldEntries(errs) ==
    IF errs = <<>> THEN <<>>
    ELSE errs[1].field.v \o <<": ">> \o errs[1].code.v \o <<" - ">>
            \o (IF errs[1].message.t = "string" /\ errs[1].message.v # <<>>
                THEN errs[1].message.v ELSE <<"Validation failed">>)
            \o (IF Len(errs) > 1 THEN <<"; ">> \o FieldEntries(Tail(errs)) ELSE <<>>)

\* The create requests that were answered with a failure.
FailedCreates == SelectSeq(calls, LAMBDA c : c.op = "create" /\ c.reply = "error")

\* The file exists, has a known format and parses, to no record at all: a
\* CSV file without data rows, an empty JSON array, or a JSON object whose
\* "issues" is an empty array.
ZeroRecords ==
    /\ fileInput.exists
    /\ fileInput.format \in {"csv", "json"}
    /\ ~fileInput.content.malformed
    /\ \/ fileInput.content.data = Arr(<<>>)
       \/ /\ fileInput.format = "json"
          /\ fileInput.content.data.t = "object"
          /\ fileInput.content.data.f["issues"] = Arr(<<>>)

\* The decoded JSON value has one of the two shapes the parser looks for: an
\* array, or an object whose "issues" is an array (elements not inspected).
ArrayShape(data) ==
    \/ data.t = "array"
    \/ data.t = "object" /\ data.f["issues"].t = "array"

\* The record array of a value of one of the two shapes.
RecordsOf(data) == IF data.t = "array" THEN data.v ELSE data.f["issues"].v

\* The stricter shape: the array holds objects only.
ArrayOfObjectsShape(data) ==
    /\ ArrayShape(data)
    /\ \A n \in 1..Len(RecordsOf(data)) : RecordsOf(data)[n].t = "object"

\* The file exists, has a known format, and parsing it fails.
ParseFailure ==
    /\ fileInput.exists
    /\ fileInput.format \in {"csv", "json"}
    /\ \/ fileInput.content.malformed
       \/ fileInput.format = "json" /\ ~ArrayShape(fileInput.content.data)

\* core.setFailed was called with a JSON parse error.
FailedWithJsonParseError ==
    /\ failed # Undef
    /\ failed.v[1] = "Action failed: "
    /\ failed.v[2] = "Failed to parse JSON file: "

\* ------------------------------------------------------------------------
\* Properties
\* ------------------------------------------------------------------------

\* C1: no record's failure stops the batch. At every loop head one outcome
\* has been recorded per record handled so far; when the run finishes the
\* outcomes are as many as the records, and the outcome at each position
\* carries the title of the record at that position (trimmed when the record
\* was accepted, raw or 'Unknown' when it was rejected).
C1_OneOutcomePerRecord ==
    /\ pc = "loop" => Len(results) = i
    /\ pc = "done" =>
        /\ Len(results) = Len(issues)
        /\ \A n \in 1..Len(results) :
            IF TitleMissingOrBlank(issues[n])
            THEN /\ results[n].status = "failed"
                 /\ results[n].title = OrElse(GetOpt(issues[n], "title"), Str(<<"Unknown">>))
            ELSE results[n].title = Str(Trim(issues[n].f["title"].v))

\* C1 witness: a run of two records has finished, the first one failed at
\* the remote create, the second was created.
C1_Witness ==
    /\ pc = "done"
    /\ Len(issues) = 2
    /\ Len(results) = 2
    /\ results[1].status = "failed"
    /\ Len(CreatesFor(0)) = 1
    /\ results[2].status = "created"

\* C2: a record without a usable title ends as a Failed outcome and no
\* remote request is ever made on its behalf.
C2_InvalidTitleNoRemoteCall ==
    /\ \A n \in 1..Len(results) :
        TitleMissingOrBlank(issues[n]) =>
            results[n].status = "failed" /\ CallsFor(n - 1) = <<>>
    /\ \A n \in 1..Len(calls) :
        calls[n].rec >= 0 => ~TitleMissingOrBlank(issues[calls[n].rec + 1])

\* C2 witness: a record with a blank title and an assignee was rejected
\* after an earlier record made remote requests.
C2_Witness ==
    /\ Len(results) = 2
    /\ issues[2] = RecBlankTitle
    /\ results[2].status = "failed"
    /\ CallsFor(0) # <<>>

\* C3: in a dry run the remote create is never requested, and every record
\* with a usable title yields the dry-run outcome with its trimmed title.
C3_DryRunNeverCreates ==
    dryRun =>
        /\ \A n \in 1..Len(calls) : calls[n].op # "create"
        /\ remoteIssues = 0
        /\ \A n \in 1..Len(results) :
            ~TitleMissingOrBlank(issues[n]) =>
                /\ results[n].status = "dry-run"
                /\ results[n].title = Str(Trim(issues[n].f["title"].v))

\* C3 witness: a dry run has finished with a dry-run outcome for a record
\* whose raw title had surrounding white space.
C3_Witness ==
    /\ dryRun
    /\ pc = "done"
    /\ \E n \in 1..Len(results) :
        /\ results[n].status = "dry-run"
        /\ issues[n] = RecPlain
        /\ results[n].title = Str(<<"a">>)

\* C4 as stated: the run is reported failed exactly when the failure count
\* is positive and the run is not a dry run.
C4_FailedIffFailuresAndNotDryRun ==
    pc = "done" => ((failed # Undef) <=> (failureCount > 0 /\ ~dryRun))

\* C4 amended: when the batch was processed (the file parsed to at least one
\* record) the run is reported failed exactly when the failure count is
\* positive and the run is not a dry run; a run that stops before the batch
\* is reported failed in either mode.
C4_FailedIffFailuresAfterBatch ==
    pc = "done" =>
        IF Len(issues) > 0
        THEN (failed # Undef) <=> (failureCount > 0 /\ ~dryRun)
        ELSE failed # Undef

\* C4 witness: a dry run has finished with a failed record and is not
\* reported failed.
C4_Witness ==
    /\ pc = "done"
    /\ dryRun
    /\ failureCount > 0
    /\ failed = Undef

\* C5: the success count is the number of Created and DryRun outcomes, the
\* failure count the number of Failed outcomes, their sum the number of
\* records processed, and the summary is built from the two counts.
C5_CountsMatchOutcomes ==
    /\ successCount = CountStatus({"created", "dry-run"})
    /\ failureCount = CountStatus({"failed"})
    /\ successCount + failureCount = Len(results)
    /\ pc = "loop" => successCount + failureCount = i
    /\ outputs.summary # Undef =>
        outputs.summary =
            Str(<<"Import completed: ">> \o NumToStr(CountStatus({"created", "dry-run"}))
                    \o <<" successful, ">> \o NumToStr(CountStatus({"failed"}))
                    \o <<" failed">>)

\* C5 witness: a finished run with a success and a failure in its summary.
C5_Witness ==
    /\ pc = "done"
    /\ successCount = 1
    /\ failureCount = 1
    /\ outputs.summary =
        Str(<<"Import completed: ", "1", " successful, ", "1", " failed">>)

\* C6: the issues-created output is the number of remote create requests
\* that succeeded.
C6_IssuesCreatedIsRemoteCreates ==
    outputs.created # Undef =>
        outputs.created =
            Str(NumToStr(Len(SelectSeq(calls,
                    LAMBDA c : c.op = "create" /\ c.reply = "ok"))))

\* C7: a failed remote create never rejects out of createIssue: the record's
\* outcome is Failed with the issue's trimmed title and a non-empty message.
C7_CreateFailureIsOutcome ==
    \A n \in 1..Len(calls) :
        (calls[n].op = "create" /\ calls[n].reply = "error") =>
            /\ Len(results) > calls[n].rec
            /\ results[calls[n].rec + 1].status = "failed"
            /\ results[calls[n].rec + 1].title =
                   Str(Trim(issues[calls[n].rec + 1].f["title"].v))
            /\ results[calls[n].rec + 1].error # <<>>

\* C7 witness: a create answered 422 with field errors became a Failed
\* outcome and the loop went on.
C7_Witness ==
    /\ Len(results) = 2
    /\ Len(CreatesFor(0)) = 1
    /\ CreatesFor(0)[1].reply = "error"
    /\ results[1].status = "failed"
    /\ results[1].error[1] = "Validation Failed: "

\* C8: the payload of a create request holds title and body always, labels
\* exactly when the issue has labels, assignees exactly when it has
\* assignees, and a milestone only when the issue has one.
C8_PayloadOmitsEmptyFields ==
    pc = "awaitCreate" =>
        LET payload == calls[Len(calls)].arg
            issue == validatedIssue
        IN /\ {"title", "body"} \subseteq DOMAIN payload
           /\ payload["title"] = issue.title
           /\ payload["body"] = issue.body
           /\ "labels" \in DOMAIN payload <=> issue.labels # <<>>
           /\ "labels" \in DOMAIN payload => payload["labels"] = issue.labels
           /\ "assignees" \in DOMAIN payload <=> issue.assignees # <<>>
           /\ "assignees" \in DOMAIN payload => payload["assignees"] = issue.assignees
           /\ "milestone" \in DOMAIN payload =>
                 issue.milestone # Null /\ payload["milestone"] = issue.milestone
           /\ issue.milestone = Null => "milestone" \notin DOMAIN payload

\* C8 witness: a create request for an issue with labels and a milestone
\* whose candidates were all dropped.
C8_Witness ==
    /\ pc = "awaitCreate"
    /\ validatedIssue.labels # <<>>
    /\ parsedAssignees # <<>>
    /\ validatedIssue.assignees = <<>>
    /\ validatedIssue.milestone = Num(5)
    /\ DOMAIN calls[Len(calls)].arg = {"owner", "repo", "title", "body", "labels", "milestone"}

\* C9: validateAssignees returns the candidates whose check succeeded, in
\* order; a failed check of either kind drops the candidate and the record
\* still reaches createIssue.
C9_KeepsConfirmedInOrder ==
    /\ pc = "create" =>
        validatedIssue.assignees = KeptCandidates(parsedAssignees, ChecksFor(i))
    /\ \A n \in 1..Len(calls) :
        (calls[n].op = "checkCollaborator" /\ calls[n].reply = "error"
            /\ Len(results) > calls[n].rec) =>
                IF dryRun THEN results[calls[n].rec + 1].status = "dry-run"
                ELSE Len(CreatesFor(calls[n].rec)) = 1

\* C9 witness: of the candidates a, b the first was refused and the second
\* confirmed.
C9_Witness ==
    /\ pc = "create"
    /\ parsedAssignees = << <<"a">>, <<"b">> >>
    /\ ChecksFor(i)[1].reply = "error"
    /\ validatedIssue.assignees = << <<"b">> >>

\* C10: one collaborator query per candidate, in candidate order, each
\* answered before the next request is made; none for no candidates.
C10_OneQueryPerCandidate ==
    /\ \A n \in 1..(Len(calls) - 1) : calls[n].reply # "pending"
    /\ pc = "create" =>
        /\ Len(ChecksFor(i)) = Len(parsedAssignees)
        /\ \A n \in 1..Len(parsedAssignees) : ChecksFor(i)[n].arg = parsedAssignees[n]
        /\ parsedAssignees = <<>> => validatedIssue.assignees = <<>>

\* C10 witness: a duplicated candidate was queried twice, the first query
\* having failed.
C10_Witness ==
    /\ pc = "create"
    /\ parsedAssignees = << <<"a">>, <<"a">> >>
    /\ Len(ChecksFor(i)) = 2
    /\ ChecksFor(i)[1].reply = "error"

\* C11: milestone resolution follows the fixed precedence: absent or falsy
\* gives no milestone and no warning; a number is used as is; a string that
\* is an integer literal gives that integer even when the map holds that
\* title; otherwise a title of the map gives its identifier; otherwise no
\* milestone and exactly one warning.
C11_MilestonePrecedence ==
    pc = "create" =>
        /\ validatedIssue.milestone =
               ExpectedMilestone(issues[i + 1].f["milestone"], milestoneMap)
        /\ Len(MilestoneWarnings) = Cardinality(WarnedRecords)

\* C11 witness: the reference "5" resolved to 5 although the map holds a
\* milestone titled "5" with another number.
C11_Witness ==
    /\ pc = "create"
    /\ issues[i + 1].f["milestone"] = Str(<<"5">>)
    /\ <<"5">> \in DOMAIN milestoneMap
    /\ milestoneMap[<<"5">>] = 7
    /\ validatedIssue.milestone = Num(5)

\* C12: when the milestone listing fails the run goes on with an empty map
\* and a warning: every record is processed, a reference by title resolves
\* to no milestone, a number or integer-literal string to its number.
C12_ListingFailureIsNotFatal ==
    (Len(calls) > 0 /\ calls[1].op = "listMilestones" /\ calls[1].reply = "error") =>
        /\ milestoneMap = EmptyMap
        /\ Len(warnings) > 0
        /\ warnings[1].kind = "milestones-fetch-failed"
        /\ pc = "done" =>
            /\ Len(results) = Len(issues)
            /\ outputs.summary # Undef
        /\ pc = "create" =>
            LET ref == issues[i + 1].f["milestone"]
            IN IF AbsentReference(ref) THEN validatedIssue.milestone = Null
               ELSE IF ref.t = "number" THEN validatedIssue.milestone = ref
               ELSE IF IsIntegerLiteral(ref.v)
               THEN validatedIssue.milestone = Num(LiteralValue(ref.v))
               ELSE validatedIssue.milestone = Null

\* C12 witness: after a failed listing a record referring to the title "v"
\* was created without a milestone and the run finished with its summary.
C12_Witness ==
    /\ pc = "done"
    /\ calls[1].reply = "error"
    /\ issues[1].f["milestone"] = Str(<<"v">>)
    /\ results[1].status = "created"
    /\ Len(results) = 2
    /\ "milestone" \notin DOMAIN CreatesFor(0)[1].arg

\* C13: a parse failure ends the run before any record is processed: no
\* remote request of any kind, no outcome, and the run is reported failed.
C13_ParseFailureAborts ==
    ParseFailure =>
        /\ calls = <<>>
        /\ results = <<>>
        /\ issues = <<>>
        /\ pc \in {"start", "done"}
        /\ pc = "done" => (failed # Undef /\ outputs = NoOutputs)

\* C13 witness: a run over malformed CSV text has ended, reported failed.
C13_Witness ==
    /\ pc = "done"
    /\ fileInput.format = "csv"
    /\ fileInput.content.malformed
    /\ failed = Str(<<"Action failed: ", "CSV parsing errors: ", "Quoted field unterminated">>)

\* C14: the JSON text of an array A and the JSON text of {"issues": A} parse
\* to the same record sequence, A itself, elements and order kept.
C14_BareAndWrappedArrayAgree ==
    (pc # "start" /\ fileInput.format = "json" /\ fileInput.exists
        /\ ~fileInput.content.malformed) =>
        LET data == fileInput.content.data
        IN /\ data.t = "array" => issues = data.v
           /\ (data.t = "object" /\ data.f["issues"].t = "array") =>
                 issues = data.f["issues"].v

\* C14 witness: a wrapped array of two different records was parsed.
C14_Witness ==
    /\ pc = "milestones"
    /\ fileInput.content.data = Obj([issues |-> Arr(<<RecFull, RecPlain>>)])
    /\ issues = <<RecFull, RecPlain>>

\* C15 as stated: a JSON document that is not an array of objects, nor an
\* object whose "issues" is an array of objects, fails with a parse error
\* and yields no records.
C15_OnlyArraysOfObjectsAccepted ==
    (pc # "start" /\ fileInput.format = "json" /\ fileInput.exists
        /\ (fileInput.content.malformed
            \/ ~ArrayOfObjectsShape(fileInput.content.data))) =>
        /\ issues = <<>>
        /\ FailedWithJsonParseError

\* C15 amended: a JSON document is accepted exactly when it is an array or
\* an object whose "issues" is an array, whatever the elements are; every
\* other shape and malformed text fail with a parse error, yield no records
\* and make no remote request.
C15_ArraysAcceptedWhateverTheElements ==
    (pc # "start" /\ fileInput.format = "json" /\ fileInput.exists) =>
        IF ~fileInput.content.malformed /\ ArrayShape(fileInput.content.data)
        THEN /\ issues = RecordsOf(fileInput.content.data)
             /\ ~FailedWithJsonParseError
        ELSE /\ issues = <<>>
             /\ calls = <<>>
             /\ pc = "done"
             /\ FailedWithJsonParseError

\* C15 witness: an array holding null and a string was accepted, and both
\* elements ended as Failed outcomes of the batch.
C15_Witness ==
    /\ pc = "done"
    /\ fileInput.content.data = Arr(<<RecNull, RecScalar>>)
    /\ Len(results) = 2
    /\ results[1].status = "failed"
    /\ results[2].status = "failed"
    /\ outputs.summary # Undef

\* C16: on a string, parseLabels and parseAssignees both give the trimmed,
\* non-empty pieces in their original order, comma and semicolon separating
\* alike: labels and assignees strings that differ only in which separator
\* stands where give the same list.
C16_SeparatorsInterchangeable ==
    (pc = "create" /\ issues[i + 1].t = "object"
        /\ "labels" \in DOMAIN issues[i + 1].f
        /\ "assignees" \in DOMAIN issues[i + 1].f
        /\ issues[i + 1].f["labels"].t = "string"
        /\ issues[i + 1].f["assignees"].t = "string") =>
        LET s == issues[i + 1].f["labels"].v
            t == issues[i + 1].f["assignees"].v
        IN /\ validatedIssue.labels = Pieces(s)
           /\ parsedAssignees = Pieces(t)
           /\ SameUpToSeparators(s, t) => validatedIssue.labels = parsedAssignees

\* C16 witness: labels "a;b" and assignees "a,b" both gave [a, b].
C16_Witness ==
    /\ pc = "create"
    /\ issues[i + 1] = RecWithLists(<<"a", ";", "b">>, <<"a", ",", "b">>)
    /\ validatedIssue.labels = <<<<"a">>, <<"b">>>>
    /\ parsedAssignees = <<<<"a">>, <<"b">>>>

\* C17: a dry run and a non-dry run whose creates all succeed have the same
\* outcome pattern, a function of the records and of the answers to the
\* milestone listing and the collaborator checks: every candidate is
\* checked, the normalized issue is the same, Failed stands at the records
\* without a valid title, and DryRun stands where the other has Created.
C17_DryRunMirrorsSuccessfulRun ==
    (dryRun \/ CreatesAllSucceed) =>
        /\ \A n \in 1..Len(results) :
              results[n].status =
                  IF TitleMissingOrBlank(issues[n]) THEN "failed"
                  ELSE IF dryRun THEN "dry-run" ELSE "created"
        /\ pc = "create" =>
              /\ Len(ChecksFor(i)) = Len(ExpectedList(issues[i + 1].f["assignees"]))
              /\ validatedIssue = ExpectedIssue(issues[i + 1], milestoneMap, ChecksFor(i))
        /\ \A n \in 1..Len(results) :
              results[n].status # "failed" =>
                  results[n].title = Str(Trim(issues[n].f["title"].v))

\* C17 witness: a dry run over a blank-titled record and a full record has
\* ended with Failed, DryRun, after the full record's candidate was checked.
C17_Witness ==
    /\ dryRun
    /\ pc = "done"
    /\ issues = <<RecBlankTitle, RecFull>>
    /\ Len(ChecksFor(1)) = 1
    /\ ChecksFor(1)[1].reply = "ok"
    /\ Len(results) = 2
    /\ results[1].status = "failed"
    /\ results[2].status = "dry-run"

\* C18: processing is strictly sequential. At most one remote request is in
\* flight, and it is the last one issued; requests are issued in the order
\* of the records; a record's collaborator checks come before its create;
\* and the outcomes recorded so far are those of the records before the
\* current one, so a request for a record is issued only after everything
\* for the records before it has been answered.
C18_StrictlySequential ==
    /\ Cardinality(InFlight) <= 1
    /\ InFlight \subseteq {Len(calls)}
    /\ \A m, n \in 1..Len(calls) :
          m < n =>
              /\ calls[m].rec <= calls[n].rec
              /\ calls[m].rec = calls[n].rec => calls[m].op # "create"
    /\ \A n \in 1..Len(calls) :
          /\ calls[n].rec <= i
          /\ calls[n].reply = "pending" =>
                /\ Len(results) = i
                /\ calls[n].rec = IF calls[n].op = "listMilestones" THEN -1 ELSE i
          /\ calls[n].op # "listMilestones" =>
                (calls[n].rec >= 0 /\ calls[n].rec < Len(issues))
    /\ Len(results) \in {i, i + 1}

\* C18 witness: the second record's create is in flight after two checks and
\* a create for the first record were all answered.
C18_Witness ==
    /\ pc = "awaitCreate"
    /\ i = 1
    /\ Len(ChecksFor(0)) = 2
    /\ Len(CreatesFor(0)) = 1
    /\ InFlight = {Len(calls)}
    /\ calls[Len(calls)].rec = 1
    /\ \A n \in 1..(Len(calls) - 1) : calls[n].reply # "pending"

\* C19: in a non-dry run the pause follows the creation step of every record
\* but the last (a record rejected by validation has no creation step and no
\* pause), once per record, and while it lasts nothing of the next record
\* has started; a dry run never pauses, and no run pauses after its final
\* record.
C19_PauseBetweenCreations ==
    /\ dryRun => (pauses = <<>> /\ pc # "pause")
    /\ \A n \in 1..Len(pauses) : pauses[n] < Len(issues) - 1
    /\ \A m, n \in 1..Len(pauses) : m < n => pauses[m] < pauses[n]
    /\ ~dryRun =>
          \A r \in 0..(Len(issues) - 2) : r \in PausedRecords <=> CreationReturned(r)
    /\ \A r \in PausedRecords : i = r => pc = "pause"
    /\ pc = "pause" =>
          /\ i \in PausedRecords
          /\ Len(results) = i + 1
          /\ CallsFor(i + 1) = <<>>

\* C19 witness: a non-dry run over two records has ended after one pause,
\* taken after the first record's creation and before the second's.
C19_Witness ==
    /\ ~dryRun
    /\ pc = "done"
    /\ Len(issues) = 2
    /\ pauses = <<0>>
    /\ CreationReturned(0)
    /\ CreationReturned(1)

\* C20: once the batch has started and every remote call is answered, the
\* run ends, with one outcome for every input record and the summary set;
\* from no state of the batch does it stop early or go on forever.
C20_BatchRunsToCompletion ==
    (pc \notin {"start", "done"}) ~>
        (/\ pc = "done"
         /\ Len(results) = Len(issues)
         /\ i = Len(issues)
         /\ InFlight = {}
         /\ outputs.summary # Undef)

\* C20 witness: a run has ended with both records processed although the
\* first record's create had failed.
C20_Witness ==
    /\ pc = "done"
    /\ Len(issues) = 2
    /\ Len(results) = 2
    /\ CreationReturned(0)
    /\ CreatesFor(0)[1].reply = "error"
    /\ results[1].status = "failed"
    /\ results[2].status = "created"
    /\ outputs.summary # Undef

\* C21: the body of every normalized issue is a string, whatever the record
\* holds in body and description.
C21_BodyIsString ==
    pc = "create" => validatedIssue.body.t = "string"

\* C22 as stated: the normalized body is the body field if the record has
\* one (even an empty one), else the description field if it has one, else
\* the empty string.
C22_BodyIfPresent ==
    pc = "create" =>
        LET rec == issues[i + 1]
        IN validatedIssue.body =
              IF Present(rec.f["body"]) THEN rec.f["body"]
              ELSE IF Present(rec.f["description"]) THEN rec.f["description"]
              ELSE Str(<<>>)

\* C22 amended: the normalized body is the body field if it is filled
\* (present and not null, empty, 0 or false), else the description field if
\* that is filled, else the empty string.
C22_BodyIfFilled ==
    pc = "create" =>
        LET rec == issues[i + 1]
        IN validatedIssue.body =
              IF Filled(rec.f["body"]) THEN rec.f["body"]
              ELSE IF Filled(rec.f["description"]) THEN rec.f["description"]
              ELSE Str(<<>>)

\* C22 witness: a record with an empty body and a description was
\* normalized, and its body is the description.
C22_Witness ==
    /\ pc = "create"
    /\ issues[i + 1] = RecWithBody(Str(<<>>), Str(<<"d">>))
    /\ validatedIssue.body = Str(<<"d">>)

C24_CreateCarriesResolvedMilestone ==
    (pc = "awaitCreate" /\ ~dryRun) =>
        LET payload == calls[Len(calls)].arg
        IN IF validatedIssue.milestone = Null
           THEN "milestone" \notin DOMAIN payload
           ELSE /\ "milestone" \in DOMAIN payload
                /\ payload["milestone"] = validatedIssue.milestone

\* C25: in a non-dry run the create is requested exactly once for each
\* record that passes validation, also when the request fails, and never
\* for a record that fails validation; at the end the number of create
\* requests is the number of validated records.
C25_OneCreatePerValidRecord ==
    ~dryRun =>
        /\ \A r \in 0..(Len(issues) - 1) :
              /\ Len(CreatesFor(r)) <= 1
              /\ r \notin ValidRecords => CreatesFor(r) = <<>>
              /\ (r \in ValidRecords /\ r < Len(results)) => Len(CreatesFor(r)) = 1
        /\ Len(AllCreates) <= Cardinality(ValidRecords)
        /\ (pc = "done" /\ issues # <<>>) => Len(AllCreates) = Cardinality(ValidRecords)

\* C25 witness: a non-dry run over a rejected record and a valid record
\* whose create failed has ended with that single create request.
C25_Witness ==
    /\ ~dryRun
    /\ pc = "done"
    /\ Len(issues) = 2
    /\ ValidRecords = {1}
    /\ Len(AllCreates) = 1
    /\ AllCreates[1].rec = 1
    /\ AllCreates[1].reply = "error"
    /\ results[2].status = "failed"

\* C26: a record that fails validation becomes a Failed outcome at its own
\* position. Its error is the message of the error raised: the TypeError's
\* when the record is null, otherwise the one naming the record's index.
\* Its title is the record's raw title when the record is an object holding
\* one (a blank string or a number as it stands), and "Unknown" when the
\* title is missing (absent, null, empty, 0 or false) or the record is no
\* object. The records after it are processed all the same.
C26_ValidationErrorIsOutcome ==
    \A n \in 1..Len(results) :
        TitleMissingOrBlank(issues[n]) =>
            /\ results[n].status = "failed"
            /\ results[n].error =
                  IF issues[n] = Null
                  THEN <<"Cannot read properties of null (reading 'title')">>
                  ELSE <<"Issue at index ">> \o NumToStr(n - 1)
                           \o <<" is missing a valid title">>
            /\ results[n].title =
                  IF issues[n].t = "object" /\ Filled(issues[n].f["title"])
                  THEN issues[n].f["title"]
                  ELSE Str(<<"Unknown">>)
            /\ i >= n
            /\ pc = "done" => Len(results) = Len(issues)

\* C26 witness: a record titled 5 (a number) was rejected at index 0 with
\* that title and the record after it was created.
C26_Witness ==
    /\ pc = "done"
    /\ issues = <<RecWithTitle(Num(5)), RecPlain>>
    /\ results[1].status = "failed"
    /\ results[1].title = Num(5)
    /\ results[1].error = <<"Issue at index ", "0", " is missing a valid title">>
    /\ results[2].status = "created"

\* C27: for a labels or assignees value that is not a non-empty string,
\* parseLabels and parseAssignees give nothing for undefined, null, the
\* empty string and the empty array; for an array its elements that are
\* non-empty strings, in order, not trimmed and not split; and nothing for
\* a number, a boolean or an object.
C27_ListsOfOtherShapes ==
    pc = "create" =>
        LET labels == issues[i + 1].f["labels"]
            assignees == issues[i + 1].f["assignees"]
        IN /\ ~IsFilledString(labels) =>
                 validatedIssue.labels =
                     IF labels.t = "array" THEN StringElements(labels.v) ELSE <<>>
           /\ ~IsFilledString(assignees) =>
                 parsedAssignees =
                     IF assignees.t = "array" THEN StringElements(assignees.v) ELSE <<>>

\* C27 witness: the array [" a", "a;b"] gave [" a", "a;b"] for labels and
\* for assignees.
C27_Witness ==
    /\ pc = "create"
    /\ issues[i + 1] = RecWithSameLists(Arr(<<Str(<<" ", "a">>), Str(<<"a", ";", "b">>)>>))
    /\ validatedIssue.labels = <<<<" ", "a">>, <<"a", ";", "b">>>>
    /\ parsedAssignees = <<<<" ", "a">>, <<"a", ";", "b">>>>

\* C28: the Failed outcome of a rejected create carries "Validation Failed:"
\* and the field errors (field, code, message; in order; joined by
\* semicolons) when the answer has status 422 and structured errors, and
\* the raw message of the answer otherwise, a 422 without structured errors
\* included; the documentation reference of the answer is never part of it.
C28_CreateErrorMessage ==
    \A n \in 1..Len(FailedCreates) :
        LET answer == FailedCreates[n].answer
            outcome == results[FailedCreates[n].rec + 1]
        IN /\ outcome.status = "failed"
           /\ outcome.error =
                 IF answer.status = 422 /\ answer.errors.t = "array"
                 THEN <<"Validation Failed: ">> \o FieldEntries(answer.errors.v)
                 ELSE answer.message
           /\ answer.documentation_url.t = "string" =>
                 \A j \in 1..Len(outcome.error) :
                     outcome.error[j] \notin
                         {answer.documentation_url.v[m] :
                             m \in 1..Len(answer.documentation_url.v)}

\* C28 witness: one create was rejected with two field errors and another
\* with a 422 without field errors, both answers carrying a documentation
\* reference.
C28_Witness ==
    /\ Len(FailedCreates) = 2
    /\ FailedCreates[1].answer.documentation_url = Str(<<"https://docs">>)
    /\ FailedCreates[2].answer.documentation_url = Str(<<"https://docs">>)
    /\ results[FailedCreates[1].rec + 1].error =
           <<"Validation Failed: ", "assignees", ": ", "invalid", " - ",
             "Validation failed", "; ", "title", ": ", "custom", " - ", "too long">>
    /\ results[FailedCreates[2].rec + 1].error = <<"Unprocessable">>

\* C29: when the file parses to zero records the run is reported failed in
\* a dry run as in a non-dry run, with no remote request (the milestone
\* listing included), no outcome, and no count or summary output.
C29_ZeroRecordsFailTheRun ==
    ZeroRecords =>
        /\ calls = <<>>
        /\ results = <<>>
        /\ outputs = NoOutputs
        /\ pc \in {"start", "done"}
        /\ pc = "done" =>
              failed = Str(<<"Action failed: ", "No issues found in the input file">>)

\* C29 witness: a dry run over a CSV file without data rows has ended,
\* reported failed.
C29_Witness ==
    /\ dryRun
    /\ pc = "done"
    /\ fileInput.format = "csv"
    /\ ZeroRecords
    /\ failed # Undef
    /\ calls = <<>>

====
